---------------------------- MODULE Spec2Model ----------------------------
(***************************************************************************)
(* Model of the shoe scrapers: run_extract (main.py) and the six brand     *)
(* extractors it dispatches to (extractors/adidas.py, asics.py, hoka.py,   *)
(* nike.py, new_balance.py, world_balance.py).                             *)
(*                                                                         *)
(* Two specifications share the parsers, normalizers and gates:            *)
(*   Spec      the whole request: dispatch, the per-category pagination    *)
(*             loops against a nondeterministic site, normalization, the   *)
(*             data-quality gate and the response;                         *)
(*   SpecNorm  the parse -> normalize -> gate -> return tail of extract()  *)
(*             on pages drawn from a richer set of cards.                  *)
(***************************************************************************)
EXTENDS Integers, Sequences, FiniteSets, TLC

(***************************************************************************)
(* Bounds of the model.                                                    *)
(***************************************************************************)
\* cards on one page of the site; the site never serves more than a full page
MaxItems == 2
\* largest page cap the caller passes (num_pages ranges over -1..MaxPages)
MaxPages == 2
\* requests one category may issue before the model stops following it
MaxFetch == 3
\* cards of all the pages handed to the parsers in SpecNorm
MaxBatch == 2

(***************************************************************************)
(* Values.  Python's None is the empty tuple and a present value v is the  *)
(* one-element tuple <<v>>, so that nullable fields stay comparable.       *)
(***************************************************************************)
None == <<>>
Some(v) == <<v>>
\* a price that is present but is not a number (a JSON string)
NonNumeric == <<0, 0>>
IsNumber(c) == Len(c) = 1

Max(a, b) == IF a >= b THEN a ELSE b

RECURSIVE PickFrom(_, _, _)
PickFrom(s, S, i) ==
    IF i > Len(s) THEN <<>>
    ELSE (IF i \in S THEN <<s[i]>> ELSE <<>>) \o PickFrom(s, S, i + 1)
\* the rows of s at the positions S, in order
Rows(s, S) == PickFrom(s, S, 1)

RECURSIVE Concat(_)
Concat(ss) == IF ss = <<>> THEN <<>> ELSE Head(ss) \o Concat(Tail(ss))

Range(s) == {s[i] : i \in 1..Len(s)}

(***************************************************************************)
(* The brands of run_extract's lookup table and their category tables,     *)
(* cut down to one path per gender configuration they hold.                *)
(***************************************************************************)
Brands == {"adidas", "nike", "worldbalance", "newbalance_atmos", "asics", "hoka"}

\* "infants" is adidas' infants-shoes (gender male+female); "kids" stands for
\* the unisex youth paths; "other" is a path no table holds.
Paths == {"men", "women", "infants", "kids", "other"}

NoConfig == "no-config"

CATEGORY_CONFIG(b, path) ==
    CASE path = "men" -> <<"male">>
      [] path = "women" -> <<"female">>
      [] path = "infants" /\ b = "adidas" -> <<"male", "female">>
      [] path = "kids" /\ b \in {"nike", "worldbalance", "asics", "hoka"} -> <<"unisex">>
      [] OTHER -> NoConfig

\* the gender list a parser stamps on the records of a path
\* (every parser reads it with a default of [] for an unknown path)
ConfigGender(b, path) ==
    IF CATEGORY_CONFIG(b, path) = NoConfig THEN <<>> ELSE CATEGORY_CONFIG(b, path)

\* what "all" crawls: the tables cut down to a men's and a women's path (the
\* other gender configurations are crawled by single-category runs)
PRODUCT_LISTS(b) == <<"men", "women">>

(***************************************************************************)
(* What a page holds: cards (HTML brands) or items (JSON brands).          *)
(*   pid      None when the id attribute is absent / the JSON value null   *)
(*   sale, orig   the text of the sale and of the original price element   *)
(*            (the JSON value for the API brands): "" absent, "null" JSON  *)
(*            null, "x" text without a number, else a number               *)
(*   bad      field extraction raises on this card                        *)
(***************************************************************************)
Card(pid, title, sub, image, sale, orig, bad) ==
    [pid |-> pid, title |-> title, subTitle |-> sub, image |-> image,
     sale |-> sale, orig |-> orig, bad |-> bad]

IsJson(b) == b \in {"adidas", "nike"}

\* float(text) of the price texts of the model
Float(t) == CASE t = "5" -> 5 [] t = "8" -> 8 [] t = "3" -> 3 [] t = "-3" -> 0 - 3

Shoe(id, title, sub, image, ps, po, gender, extra) ==
    [id |-> id, title |-> title, subTitle |-> sub, image |-> image,
     price_sale |-> ps, price_original |-> po, gender |-> gender, extra |-> extra]


(***************************************************************************)
(* The parsers: one card or item -> at most one raw record.                *)
(***************************************************************************)
\* Python's `a or b` on prices: None and 0.0 are falsy
PyOr(a, b) == IF a = None \/ a = Some(0) THEN b ELSE a

\* dict.get(key, default) of a price in a JSON item
JsonGet(tok, default) ==
    CASE tok = "" -> default
      [] tok = "null" -> None
      [] tok = "x" -> NonNumeric
      [] OTHER -> Some(Float(tok))

\* --- adidas: _extract_raw, the body of `for p in items` (no try/except)
AdidasItemRaises(p) == p.bad

AdidasExtractItem(p, gender) ==
    Shoe(p.pid, p.title, p.subTitle, p.image,
         PyOr(JsonGet(p.sale, Some(0)), Some(0)),
         PyOr(JsonGet(p.orig, Some(0)), Some(0)),
         gender, None)

\* --- nike: _extract_product_data and the NikeShoe(...) of _process_category
NikeItemRaises(product) == product.bad

NikeExtractProductData(product, gender) ==
    Shoe(product.pid, product.title, product.subTitle, product.image,
         JsonGet(product.sale, Some(0)),
         JsonGet(product.orig, Some(0)),
         gender, None)

\* --- asics: _extract_products, one tile inside try/except
\* re.sub(r"[^\d\.]", "", raw): the sign and every non-digit are dropped
AsicsDigits(t) == CASE t = "-3" -> "3" [] t = "x" -> "" [] OTHER -> t

AsicsParsePrice(t) ==
    IF t = "" THEN None
    ELSE IF AsicsDigits(t) = "" THEN None ELSE Some(Float(AsicsDigits(t)))

\* _extract_image: the <img> source, else the template built from a product
\* id of exactly two "-"-separated parts (id 1 of the model), else None
AsicsExtractImage(prod) ==
    IF prod.image # None THEN prod.image
    ELSE IF prod.pid = Some(1) THEN Some("template") ELSE None

AsicsExtractTile(prod, gender) ==
    LET ps == AsicsParsePrice(prod.sale)
        po == PyOr(AsicsParsePrice(prod.orig), ps)
    IN  Shoe(prod.pid, prod.title, prod.subTitle, AsicsExtractImage(prod),
             IF ps # None THEN ps ELSE Some(0),
             IF po # None THEN po ELSE Some(0),
             gender, None)

\* --- hoka: _extract_products, the body of `for prod in tiles` (no try/except)
HokaParsePrice(t) ==
    IF t = "" THEN None
    ELSE IF t = "x" THEN None   \* ValueError is caught inside _parse_price
    ELSE Some(Float(t))

HokaIsTile(prod) == prod.pid # None   \* find_all(..., attrs={'data-pid': True})

HokaItemRaises(prod) == HokaIsTile(prod) /\ prod.bad

HokaExtractProduct(prod, gender, path) ==
    LET ps == PyOr(HokaParsePrice(prod.sale), Some(0))
        po == PyOr(HokaParsePrice(prod.orig), ps)
    IN  Shoe(prod.pid, prod.title,
             IF CATEGORY_CONFIG("hoka", path) = NoConfig THEN None ELSE Some(path),
             IF prod.image = None THEN Some("") ELSE prod.image,
             ps, po, gender, Some({path}))

\* --- new balance: _parse_page, one card inside try/except.  A card with both
\* elements is a compareAt/highlight card; a card with only the sale text is a
\* regular-price card (the Text--subdued element); anything else has no price
\* element the parser knows and is skipped by `continue`.
NewBalanceCardRaises(card) ==
    \/ card.bad
    \/ card.orig # "" /\ card.sale # "" /\ "x" \in {card.orig, card.sale}
    \/ card.orig = "" /\ card.sale = "x"

NewBalanceHasPrice(card) == card.sale # ""

NewBalanceParseCard(card, gender, path) ==
    LET ps == Some(Float(card.sale))
        po == IF card.orig # "" THEN Some(Float(card.orig)) ELSE ps
    IN  Shoe(IF card.pid = None THEN Some(0) ELSE card.pid,   \* no href: id ""
             card.title, Some(path),
             IF card.image = None THEN Some("") ELSE card.image,
             ps, po, gender, Some({path}))

\* --- world balance: parse_price and one card inside try/except
\* re.findall(r'\d{1,3}(?:,\d{3})*\.\d{2}', raw) over one price text
WorldBalanceNums(t) ==
    CASE t \in {"5", "8"} -> <<Float(t)>>
      [] t = "-3" -> <<3>>
      [] OTHER -> <<>>

\* <<sale, original>>
parse_price(orig, sale) ==
    LET nums == WorldBalanceNums(orig) \o WorldBalanceNums(sale)
    IN  IF Len(nums) >= 2 THEN <<nums[2], nums[1]>>
        ELSE IF Len(nums) = 1 THEN <<nums[1], nums[1]>>
        ELSE <<0, 0>>

WorldBalanceIsCard(c) == c.pid # None   \* select('div.grid__item[data-product-id]')

WorldBalanceParseCard(c, gender, path) ==
    LET pr == parse_price(c.orig, c.sale)
    IN  Shoe(c.pid, c.title,
             IF CATEGORY_CONFIG("worldbalance", path) = NoConfig THEN Some("") ELSE Some(path),
             IF c.image = None THEN Some("") ELSE c.image,
             Some(pr[1]), Some(pr[2]), gender, None)

\* Does parsing this card raise out of the parser (no try/except around it)?
ItemEscapes(b, it) ==
    CASE b = "adidas" -> AdidasItemRaises(it)
      [] b = "nike" -> NikeItemRaises(it)
      [] b = "hoka" -> HokaItemRaises(it)
      [] OTHER -> FALSE

\* The records one card adds to the page's list: none when it is skipped.
ItemRows(b, it, path) ==
    LET g == ConfigGender(b, path)
    IN  CASE b = "adidas" -> IF AdidasItemRaises(it) THEN <<>> ELSE <<AdidasExtractItem(it, g)>>
          [] b = "nike" -> IF NikeItemRaises(it) THEN <<>> ELSE <<NikeExtractProductData(it, g)>>
          [] b = "asics" -> IF it.bad THEN <<>> ELSE <<AsicsExtractTile(it, g)>>
          [] b = "hoka" ->
               IF ~HokaIsTile(it) \/ HokaItemRaises(it) THEN <<>>
               ELSE <<HokaExtractProduct(it, g, path)>>
          [] b = "newbalance_atmos" ->
               IF NewBalanceCardRaises(it) \/ ~NewBalanceHasPrice(it) THEN <<>>
               ELSE <<NewBalanceParseCard(it, g, path)>>
          [] b = "worldbalance" ->
               IF ~WorldBalanceIsCard(it) \/ it.bad THEN <<>>
               ELSE <<WorldBalanceParseCard(it, g, path)>>

\* One page through the brand's parser: the parser raises as soon as a card
\* raises outside a try/except, and otherwise returns the records in page order.
ParsePage(b, items, path) ==
    [raised |-> \E i \in 1..Len(items) : ItemEscapes(b, items[i]),
     rows   |-> Concat([i \in 1..Len(items) |-> ItemRows(b, items[i], path)])]


(***************************************************************************)
(* pandas, as far as the normalizers use it.  A frame is the sequence of   *)
(* its rows.                                                               *)
(***************************************************************************)
\* pd.to_numeric(errors="coerce"): what is not a number becomes NaN
ToNumeric(c) == IF IsNumber(c) THEN c ELSE None
\* a variant of fillna that leaves the nulls
NoFill(c, v) == c
FillNa(c, v) == IF c = None THEN v ELSE c
\* a variant that leaves negative prices as they are
NoClip(c) == c
\* clip(lower=0) of a numeric cell; NaN stays NaN
Clip(c) == IF IsNumber(c) THEN Some(Max(c[1], 0)) ELSE c
\* a variant of the coercion that is no projection: it adds one to every price
CoerceAndAdd(c) == Some(Max(FillNa(ToNumeric(c), Some(0))[1], 0) + 1)
\* pd.to_numeric(col, errors="coerce").fillna(0).clip(lower=0)
CoercePrice(c) == Clip(FillNa(ToNumeric(c), Some(0)))

MapRows(df, F(_)) == [i \in 1..Len(df) |-> F(df[i])]

\* df.dropna(subset=['id'])
DropNaId(df) == SelectSeq(df, LAMBDA r : r.id # None)

\* a variant that keeps every row
KeepDuplicates(df) == df
\* df.drop_duplicates(subset=['id'], keep='first')
DropDuplicates(df) ==
    Rows(df, {i \in 1..Len(df) : \A j \in 1..(i - 1) : df[j].id # df[i].id})

\* the group keys of df.groupby("id"): null keys are dropped, keys are sorted
RECURSIVE SortKeys(_)
SortKeys(S) ==
    IF S = {} THEN <<>>
    ELSE LET m == CHOOSE x \in S : \A y \in S : x[1] <= y[1]
         IN  <<m>> \o SortKeys(S \ {m})
GroupKeys(df) == SortKeys({df[i].id : i \in 1..Len(df)} \ {None})
Group(df, k) == SelectSeq(df, LAMBDA r : r.id = k)

\* sorted(genders) of a set of gender strings
SortedGenders(S) == SelectSeq(<<"female", "male", "unisex">>, LAMBDA g : g \in S)
GendersOf(group) == UNION {Range(group[i].gender) : i \in 1..Len(group)}

Raise == [raised |-> TRUE, df |-> <<>>]
Frame(df) == [raised |-> FALSE, df |-> df]

(***************************************************************************)
(* The normalizers.  Each returns Raise when the code raises, else the     *)
(* cleaned frame.  A frame built from no record has no column, so the      *)
(* first column access raises KeyError.                                    *)
(***************************************************************************)
\* a variant of merge_group without the collapse to unisex
AdidasMergeGroupSorted(group) ==
    [group[1] EXCEPT !.gender = SortedGenders(GendersOf(group))]

\* --- adidas
AdidasMergeGroup(group) ==
    [group[1] EXCEPT !.gender =
        IF {"male", "female"} \subseteq GendersOf(group) THEN <<"unisex">>
        ELSE SortedGenders(GendersOf(group))]

AdidasCleanData(df) ==
    IF df = <<>> THEN Raise
    ELSE LET priced == MapRows(df, LAMBDA r :
                          [r EXCEPT !.price_sale = CoercePrice(r.price_sale),
                                    !.price_original = CoercePrice(r.price_original)])
             keys   == GroupKeys(priced)
             merged == [i \in 1..Len(keys) |-> AdidasMergeGroup(Group(priced, keys[i]))]
         IN  Frame(MapRows(merged, LAMBDA r : [r EXCEPT !.image = FillNa(r.image, Some(""))]))

\* --- asics
AsicsCleanData(df) ==
    IF df = <<>> THEN Raise
    ELSE LET priced == MapRows(df, LAMBDA r :
                          [r EXCEPT !.price_sale = CoercePrice(r.price_sale),
                                    !.price_original = CoercePrice(r.price_original)])
             unique == DropDuplicates(DropNaId(priced))
         IN  Frame(MapRows(unique, LAMBDA r :
                          [r EXCEPT !.image = FillNa(r.image, Some("no_image.png"))]))

\* --- nike
\* the title / subTitle pattern of step 2: "cap" stands for the apparel words
NikeIsShoe(r) == r.title # "cap" /\ r.subTitle # Some("cap")

NikeNormGender(g) ==
    IF "male" \in Range(g) /\ "female" \in Range(g) THEN <<"unisex">> ELSE g

\* fillna(0) then clip(lower=0): comparing a string with 0 raises TypeError
NikeCleanData(df) ==
    IF df = <<>> THEN Raise
    ELSE LET imaged == MapRows(df, LAMBDA r : [r EXCEPT !.image = FillNa(r.image, Some(""))])
             shoes  == SelectSeq(imaged, NikeIsShoe)
             filled == MapRows(shoes, LAMBDA r :
                          [r EXCEPT !.price_sale = FillNa(r.price_sale, Some(0)),
                                    !.price_original = FillNa(r.price_original, Some(0))])
         IN  IF \E i \in 1..Len(filled) :
                    NonNumeric \in {filled[i].price_sale, filled[i].price_original}
             THEN Raise
             ELSE Frame(DropDuplicates(MapRows(filled, LAMBDA r :
                          [r EXCEPT !.price_sale = Clip(r.price_sale),
                                    !.price_original = Clip(r.price_original),
                                    !.gender = NikeNormGender(r.gender)])))

\* --- hoka
HokaCleanData(df) ==
    IF df = <<>> THEN Raise
    ELSE LET priced == MapRows(df, LAMBDA r :
                          [r EXCEPT !.price_sale = CoercePrice(r.price_sale),
                                    !.price_original = CoercePrice(r.price_original)])
             unique == DropDuplicates(DropNaId(priced))
         IN  Frame(MapRows(unique, LAMBDA r : [r EXCEPT !.image = FillNa(r.image, Some(""))]))

\* --- new balance: the merge block of extract() (never run on an empty batch)
NewBalanceMergeGroup(group) ==
    [group[1] EXCEPT
        !.extra  = Some(UNION {group[i].extra[1] : i \in {j \in 1..Len(group) : group[j].extra # None}}),
        !.gender = IF GendersOf(group) = {"male", "female"} THEN <<"unisex">>
                   ELSE SortedGenders(GendersOf(group))]

NewBalanceMerge(df) ==
    LET keys   == GroupKeys(df)
        merged == [i \in 1..Len(keys) |-> NewBalanceMergeGroup(Group(df, keys[i]))]
    IN  Frame(MapRows(merged, LAMBDA r :
                 [r EXCEPT !.image = FillNa(r.image, Some("")),
                           !.price_sale = CoercePrice(r.price_sale),
                           !.price_original = CoercePrice(r.price_original)]))

\* --- world balance: the price and gender columns are created when missing,
\* the image column is not
WorldBalanceCleanData(df) ==
    IF df = <<>> THEN Raise
    ELSE Frame(DropDuplicates(MapRows(df, LAMBDA r :
                  [r EXCEPT !.image = FillNa(r.image, Some("no_image.png")),
                            !.price_original = Clip(FillNa(r.price_original, Some(0))),
                            !.price_sale = Clip(FillNa(r.price_sale, Some(0)))])))

CleanData(b, df) ==
    CASE b = "adidas" -> AdidasCleanData(df)
      [] b = "asics" -> AsicsCleanData(df)
      [] b = "nike" -> NikeCleanData(df)
      [] b = "hoka" -> HokaCleanData(df)
      [] b = "newbalance_atmos" -> NewBalanceMerge(df)
      [] b = "worldbalance" -> WorldBalanceCleanData(df)


(***************************************************************************)
(* The data-quality gates: TRUE when every check passes.                   *)
(***************************************************************************)
Negative(c) == IsNumber(c) /\ c[1] < 0
UniqueIds(df) == \A i, j \in 1..Len(df) : df[i].id = df[j].id => i = j
\* "both male and female and not ['unisex']"
GenderNotNormalized(g) ==
    "male" \in Range(g) /\ "female" \in Range(g) /\ g # <<"unisex">>

AdidasRunDataQualityTests(df) ==
    /\ \A i \in 1..Len(df) : df[i].price_sale # None /\ df[i].price_original # None
    /\ \A i \in 1..Len(df) : ~Negative(df[i].price_sale) /\ ~Negative(df[i].price_original)
    /\ \A i \in 1..Len(df) : ~GenderNotNormalized(df[i].gender)

\* df.isnull().sum() over every column, numeric prices, unique ids
AsicsRunDataQualityTests(df) ==
    /\ \A i \in 1..Len(df) :
          None \notin {df[i].id, df[i].subTitle, df[i].image, df[i].price_sale,
                       df[i].price_original, df[i].extra}
    /\ \A i \in 1..Len(df) : IsNumber(df[i].price_sale) /\ IsNumber(df[i].price_original)
    /\ UniqueIds(df)

NikeRunDataQualityTests(df) ==
    /\ \A i \in 1..Len(df) : df[i].price_sale # None /\ df[i].price_original # None
    /\ \A i \in 1..Len(df) : ~GenderNotNormalized(df[i].gender)
    /\ \A i \in 1..Len(df) : ~Negative(df[i].price_sale) /\ ~Negative(df[i].price_original)

\* required columns (all present in a frame built from records), non-null
\* numeric prices, unique ids
HokaRunDataQualityTests(df) ==
    /\ \A i \in 1..Len(df) : df[i].price_sale # None /\ df[i].price_original # None
    /\ \A i \in 1..Len(df) : IsNumber(df[i].price_sale) /\ IsNumber(df[i].price_original)
    /\ UniqueIds(df)

NewBalanceRunDataQualityTests(df) ==
    /\ \A i \in 1..Len(df) : df[i].price_sale # None /\ df[i].price_original # None
    /\ \A i \in 1..Len(df) : IsNumber(df[i].price_sale) /\ IsNumber(df[i].price_original)
    /\ UniqueIds(df)

WorldBalanceRunDataQualityTests(df) ==
    /\ \A i \in 1..Len(df) : df[i].price_sale # None /\ df[i].price_original # None
    /\ \A i \in 1..Len(df) : ~Negative(df[i].price_sale) /\ ~Negative(df[i].price_original)
    /\ \A i \in 1..Len(df) : ~GenderNotNormalized(df[i].gender)

RunDataQualityTests(b, df) ==
    CASE b = "adidas" -> AdidasRunDataQualityTests(df)
      [] b = "asics" -> AsicsRunDataQualityTests(df)
      [] b = "nike" -> NikeRunDataQualityTests(df)
      [] b = "hoka" -> HokaRunDataQualityTests(df)
      [] b = "newbalance_atmos" -> NewBalanceRunDataQualityTests(df)
      [] b = "worldbalance" -> WorldBalanceRunDataQualityTests(df)

\* the last statement of every extract(): the records of df_clean as
\* dataclasses, whatever the gate said
\* a variant in which a failed gate withholds the records
ExtractReturnGated(df, ok) == IF ok THEN df ELSE <<>>
ExtractReturn(df, ok) == df

(***************************************************************************)
(* State.                                                                  *)
(***************************************************************************)
VARIABLES
    brand,        \* run_extract's brand argument
    category,     \* run_extract's category argument
    num_pages,    \* run_extract's pages argument
    pc,           \* where the request is
    paths,        \* the category paths this run crawls, in the order of the table
    site,         \* SpecNorm: the page the site serves for each path
    w,            \* per path: the state of its pagination loop
    all_shoes,    \* extract(): the raw batch collected so far
    df_clean,     \* the normalizer's result
    dq,           \* the gate's result: "not-run", "passed" or "failed"
    shoes,        \* what extract() returned
    resp,         \* what run_extract returned: "none", "extracted" or "error"
    fh            \* fetch_html: the state of one call

vars == <<brand, category, num_pages, pc, paths, site, w, all_shoes, df_clean, dq, shoes, resp, fh>>

\* no call of fetch_html is under way: the extractors the service runs do not
\* import it
NoFetch == [at |-> "unused"]

\* the paths of one run: new balance ignores its category argument
PathsOf(b, cat) ==
    IF b = "newbalance_atmos" \/ cat = "all" THEN PRODUCT_LISTS(b) ELSE <<cat>>

\* the loop state of a path that has not started; `fetches` counts its
\* requests and `seen` keeps what each page it was served parsed to
Idle ==
    [st |-> "idle", page |-> 0, start |-> 0, sz |-> 0, page_size |-> 0, prev_count |-> 0,
     empty_runs |-> 0, total_pages |-> 0, stub |-> FALSE, local |-> <<>>, fetches |-> 0,
     seen |-> <<>>, slept |-> FALSE, rushed |-> FALSE]

\* the loop of a path sends a request: `rushed` records that it followed the
\* path's previous request with no sleep in between
Request(wk) ==
    [wk EXCEPT !.fetches = @ + 1, !.rushed = @ \/ (wk.fetches > 0 /\ ~wk.slept),
               !.slept = FALSE]
\* time.sleep(...) in the loop of a path
Sleep(wk) == [wk EXCEPT !.slept = TRUE]

\* the worker threads of asics run the paths in any order; every other brand
\* runs them one after the other
Sequential(b) == b # "asics"
\* extract() is through with a path: its records are in the batch, or its
\* failure was logged
Consumed(st) == st \in {"merged", "failed"}
MayStart(k) ==
    /\ w[k].st = "idle"
    /\ Sequential(brand) => \A j \in 1..(k - 1) : Consumed(w[j].st)

(***************************************************************************)
(* The tail of extract(), shared by both specifications.                   *)
(***************************************************************************)
\* df = pd.DataFrame(...); df_clean = self._clean_data(df)
\* (new balance: `if not all_raw: return []`, then the merge block)
Clean ==
    /\ pc = "clean"
    /\ IF brand = "newbalance_atmos" /\ all_shoes = <<>>
       THEN /\ pc' = "returned"
            /\ shoes' = <<>>
            /\ UNCHANGED df_clean
       ELSE LET r == CleanData(brand, all_shoes)
            IN  /\ pc' = IF r.raised THEN "raised" ELSE "gate"
                /\ df_clean' = r.df
                /\ UNCHANGED shoes
    /\ UNCHANGED <<fh, brand, category, num_pages, paths, site, w, all_shoes, dq, resp>>

\* self._run_data_quality_tests(df_clean); return [Shoe(**rec) for rec in ...]
GateAndReturn ==
    /\ pc = "gate"
    /\ LET ok == RunDataQualityTests(brand, df_clean)
       IN  /\ dq' = IF ok THEN "passed" ELSE "failed"
           /\ shoes' = ExtractReturn(df_clean, ok)
    /\ pc' = "returned"
    /\ UNCHANGED <<fh, brand, category, num_pages, paths, site, w, all_shoes, df_clean, resp>>

(***************************************************************************)
(* SpecNorm: one page per path, drawn from the cards below, goes through   *)
(* the brand's parser, normalizer and gate.                                *)
(***************************************************************************)
PriceCases(b) ==
    {<<"5", "8">>, <<"5", "">>, <<"", "8">>, <<"-3", "">>, <<"x", "">>, <<"", "">>}
    \cup (IF IsJson(b) THEN {<<"null", "null">>} ELSE {})

\* product 1 with every price case; product 2 without image and subtitle;
\* a card without id; a card whose extraction raises; a cap
Cards(b) ==
    {Card(Some(1), "shoe", Some("sub"), Some("img"), pr[1], pr[2], FALSE) : pr \in PriceCases(b)}
    \cup {Card(Some(2), "shoe", None, None, "5", "8", FALSE),
          Card(None, "shoe", Some("sub"), Some("img"), "5", "8", FALSE),
          Card(Some(1), "shoe", Some("sub"), Some("img"), "5", "8", TRUE),
          Card(Some(2), "cap", Some("sub"), Some("img"), "5", "8", FALSE)}

RECURSIVE SeqsUpTo(_, _)
SeqsUpTo(S, n) ==
    IF n = 0 THEN {<<>>}
    ELSE LET shorter == SeqsUpTo(S, n - 1)
         IN  shorter \cup {Append(s, x) : s \in {t \in shorter : Len(t) = n - 1}, x \in S}

\* the cards of a batch of <<path index, card>> pairs that lie on path k
PageOf(batch, k) ==
    LET on == SelectSeq(batch, LAMBDA e : e[1] = k)
    IN  [i \in 1..Len(on) |-> on[i][2]]

\* the single-category runs, besides "all"
NormCategories(b) ==
    CASE b = "adidas" -> {"all", "infants", "other"}
      [] b = "newbalance_atmos" -> {"all"}
      [] b = "nike" -> {"all", "kids"}         \* an unknown category raises before any fetch
      [] OTHER -> {"all", "kids", "other"}

InitNorm ==
    /\ brand \in Brands
    /\ category \in NormCategories(brand)
    /\ num_pages = 1
    /\ paths = PathsOf(brand, category)
    /\ \E batch \in SeqsUpTo((1..Len(paths)) \X Cards(brand), MaxBatch) :
          /\ \A i \in 1..(Len(batch) - 1) : batch[i][1] <= batch[i + 1][1]
          /\ site = [k \in 1..Len(paths) |-> PageOf(batch, k)]
    /\ w = [k \in 1..Len(paths) |-> Idle]
    /\ pc = "crawl"
    /\ all_shoes = <<>>
    /\ df_clean = <<>>
    /\ dq = "not-run"
    /\ shoes = <<>>
    /\ resp = "none"
    /\ fh = NoFetch

\* the page of path k is fetched and parsed; a parser that raises ends extract()
\* unless the path runs in an asics worker, whose exception extract() logs
NormParse(k) ==
    /\ pc = "crawl"
    /\ MayStart(k)
    /\ LET r == ParsePage(brand, site[k], paths[k])
       IN  IF r.raised
           THEN /\ pc' = "raised"
                /\ w' = [w EXCEPT ![k].st = "raised"]
                /\ UNCHANGED all_shoes
           ELSE /\ w' = [w EXCEPT ![k].st = "merged", ![k].local = r.rows, ![k].fetches = 1]
                /\ all_shoes' = all_shoes \o r.rows
                /\ pc' = IF \A j \in 1..Len(paths) : j # k => Consumed(w[j].st)
                         THEN "clean" ELSE "crawl"
    /\ UNCHANGED <<fh, brand, category, num_pages, paths, site, df_clean, dq, shoes, resp>>

NextNorm ==
    \/ \E k \in 1..Len(paths) : NormParse(k)
    \/ Clean
    \/ GateAndReturn

SpecNorm == InitNorm /\ [][NextNorm]_vars

(***************************************************************************)
(* Spec: the whole request against a nondeterministic site.                *)
(***************************************************************************)
\* adidas asks for PAGE_SIZE rows per request; a full page is MaxItems cards
PAGE_SIZE == MaxItems
\* asics: the step of its start= offset
ASICS_PAGE_SIZE == 24
\* asics: ThreadPoolExecutor(max_workers=3)
MAX_WORKERS == 3
\* hoka: page_size = len(first_batch) or 12
HOKA_DEFAULT_PAGE_SIZE == 12

\* the catalogue the site serves its pages from
SiteCards ==
    <<Card(Some(1), "shoe", Some("sub"), Some("img"), "5", "8", FALSE),
      Card(Some(2), "shoe", None, None, "5", "", FALSE)>>
BadCard == Card(Some(1), "shoe", Some("sub"), Some("img"), "5", "8", TRUE)

\* a page of n cards
SitePage(n) == [i \in 1..n |-> SiteCards[((i - 1) % Len(SiteCards)) + 1]]

\* what a request comes back with: an exception (connection error, timeout),
\* a status other than 200, or a page - possibly one with a malformed card
FetchResults ==
    {[kind |-> "exc", items |-> <<>>], [kind |-> "status", items |-> <<>>]}
    \cup {[kind |-> "page", items |-> SitePage(n)] : n \in 0..MaxItems}
    \cup {[kind |-> "page", items |-> <<BadCard>>]}

UnknownBrand == "puma"

Init ==
    /\ brand \in Brands \cup {UnknownBrand}
    /\ category \in {"all", "men", "kids", "other"}
    /\ num_pages \in (0 - 1)..MaxPages
    /\ pc = "lookup"
    /\ paths = <<>>
    /\ site = <<>>
    /\ w = <<>>
    /\ all_shoes = <<>>
    /\ df_clean = <<>>
    /\ dq = "not-run"
    /\ shoes = <<>>
    /\ resp = "none"
    /\ fh = NoFetch

\* run_extract up to the call of extract(), and the head of extract(): the
\* lookup in the brand table, the constructor, the choice of the paths
Lookup ==
    /\ pc = "lookup"
    /\ IF brand \notin Brands
       THEN /\ resp' = "error"
            /\ pc' = "done"
            /\ UNCHANGED <<paths, w>>
       ELSE /\ paths' = PathsOf(brand, category)
            /\ w' = [k \in 1..Len(PathsOf(brand, category)) |-> Idle]
            /\ pc' = IF /\ brand = "nike"
                        /\ category # "all"
                        /\ CATEGORY_CONFIG(brand, category) = NoConfig
                     THEN "raised" ELSE "crawl"
            /\ UNCHANGED resp
    /\ UNCHANGED <<fh, brand, category, num_pages, site, all_shoes, df_clean, dq, shoes>>

\* the loop of path k moves to wk and hands `add` to extract()'s batch
Step(k, wk, add) ==
    /\ w' = [w EXCEPT ![k] = wk]
    /\ all_shoes' = all_shoes \o add
    /\ pc' = IF \A j \in 1..Len(paths) : Consumed(IF j = k THEN wk.st ELSE w[j].st)
             THEN "clean" ELSE "crawl"
    /\ UNCHANGED <<fh, brand, category, num_pages, paths, site, df_clean, dq, shoes, resp>>

\* an exception leaves the loop of path k and extract()
Escape(k, wk) ==
    /\ w' = [w EXCEPT ![k] = [wk EXCEPT !.st = "raised"]]
    /\ pc' = "raised"
    /\ UNCHANGED <<fh, brand, category, num_pages, paths, site, all_shoes, df_clean, dq,
                   shoes, resp>>

\* the pages a loop was served so far, after the request that came back with r
Served(seen, r, rows) == IF r.kind = "page" THEN Append(seen, rows) ELSE seen

\* a variant of the empty-page test that never ends the loop
NeverStops(items) == FALSE
\* `if not items: break` (adidas), `if not shoes: break` (asics)
StopsOnEmpty(items) == items = <<>>

\* a variant of the short-page test that never ends the loop
NeverShort(items) == FALSE
\* adidas: `if len(items) < self.PAGE_SIZE: break`
AdidasShortPage(items) == Len(items) < PAGE_SIZE

\* --- adidas: one turn of `while True` in _extract_raw; the return of
\* _extract_raw is extended into extract()'s all_shoes
AdidasExtractRaw(k) ==
    /\ pc = "crawl" /\ brand = "adidas"
    /\ w[k].st = "run" \/ MayStart(k)
    /\ LET wk == w[k]
       IN  IF 0 <= num_pages /\ num_pages <= wk.page
           THEN Step(k, [wk EXCEPT !.st = "merged"], wk.local)
           ELSE /\ wk.fetches < MaxFetch
                /\ \E r \in FetchResults :
                      LET pg == ParsePage(brand, r.items, paths[k])
                          f  == [Request(wk) EXCEPT !.st = "run",
                                                    !.seen = Served(@, r, pg.rows)]
                      IN  IF r.kind # "page" THEN Escape(k, f)      \* raise_for_status
                          ELSE IF StopsOnEmpty(r.items)
                          THEN Step(k, [f EXCEPT !.st = "merged"], f.local)
                          ELSE IF pg.raised THEN Escape(k, f)
                          ELSE IF AdidasShortPage(r.items)
                          THEN Step(k, [f EXCEPT !.st = "merged", !.local = @ \o pg.rows],
                                    f.local \o pg.rows)
                          ELSE Step(k, Sleep([f EXCEPT !.page = @ + 1, !.local = @ \o pg.rows]),
                                    <<>>)

\* a pool that starts a worker for every path at once
AnyWorker(running) == TRUE
\* asics: the pool takes up a queued path when one of its workers is free
WorkerFree(running) == running < MAX_WORKERS

\* --- asics: one turn of `while True` in _process_category, run by a worker
\* of the pool; an exception stays in the worker's future
AsicsTurn(k, answers) ==
    /\ pc = "crawl" /\ brand = "asics"
    /\ \/ w[k].st = "run"
       \/ /\ MayStart(k)
          /\ WorkerFree(Cardinality({j \in 1..Len(paths) : w[j].st = "run"}))
    /\ w[k].fetches < MaxFetch
    /\ \E r \in answers :
          LET pg == ParsePage(brand, r.items, paths[k])
              f  == [Request(w[k]) EXCEPT !.st = "run", !.seen = Served(@, r, pg.rows)]
              nx == f.start + ASICS_PAGE_SIZE
          IN  IF r.kind # "page" THEN Step(k, [f EXCEPT !.st = "raised"], <<>>)
              ELSE IF StopsOnEmpty(pg.rows) THEN Step(k, [f EXCEPT !.st = "ok"], <<>>)
              ELSE IF num_pages # 0 - 1 /\ nx >= ASICS_PAGE_SIZE * num_pages
              THEN Step(k, [f EXCEPT !.st = "ok", !.start = nx, !.local = @ \o pg.rows], <<>>)
              ELSE Step(k, Sleep([f EXCEPT !.start = nx, !.local = @ \o pg.rows]), <<>>)

\* a worker against a site that may answer with anything
AsicsProcessCategory(k) == AsicsTurn(k, FetchResults)

\* a merge that also takes the list of a worker that is still running
AsicsCollectAny(k) ==
    /\ pc = "crawl" /\ brand = "asics"
    /\ w[k].st \in {"run", "ok", "raised"}
    /\ IF w[k].st # "raised"
       THEN Step(k, [w[k] EXCEPT !.st = "merged"], w[k].local)
       ELSE Step(k, [w[k] EXCEPT !.st = "failed"], <<>>)

\* --- asics: extract() takes a completed future from as_completed
AsicsCollect(k) ==
    /\ pc = "crawl" /\ brand = "asics"
    /\ w[k].st \in {"ok", "raised"}
    /\ IF w[k].st = "ok"
       THEN Step(k, [w[k] EXCEPT !.st = "merged"], w[k].local)
       ELSE Step(k, [w[k] EXCEPT !.st = "failed"], <<>>)

\* --- hoka: _scrape_category up to its loop (the request of the first page)
HokaScrapeFirst(k) ==
    /\ pc = "crawl" /\ brand = "hoka"
    /\ MayStart(k)
    /\ \E r \in FetchResults :
          LET pg == ParsePage(brand, r.items, paths[k])
              f  == [Request(w[k]) EXCEPT !.st = "run", !.seen = Served(@, r, pg.rows)]
              ps == IF Len(pg.rows) = 0 THEN HOKA_DEFAULT_PAGE_SIZE ELSE Len(pg.rows)
          IN  IF r.kind # "page" \/ pg.raised THEN Escape(k, f)
              ELSE Step(k, [f EXCEPT !.page_size = ps, !.sz = ps, !.prev_count = 0,
                                     !.local = pg.rows], <<>>)

\* --- hoka: one turn of `while True` in _scrape_category; extract() extends
\* its batch with the returned `final`
HokaScrapeCategory(k) ==
    /\ pc = "crawl" /\ brand = "hoka"
    /\ w[k].st = "run"
    /\ w[k].fetches < MaxFetch
    /\ \E r \in FetchResults :
          LET pg == ParsePage(brand, r.items, paths[k])
              f  == [Request(w[k]) EXCEPT !.seen = Served(@, r, pg.rows)]
              sz == f.sz + f.page_size
          IN  IF r.kind # "page" \/ pg.raised THEN Escape(k, f)
              ELSE IF Len(pg.rows) = f.prev_count
              THEN Step(k, [f EXCEPT !.st = "merged"], f.local)
              ELSE IF 0 <= num_pages /\ num_pages <= sz \div f.page_size
              THEN Step(k, [f EXCEPT !.st = "merged", !.local = pg.rows, !.sz = sz,
                                     !.prev_count = Len(pg.rows)], pg.rows)
              ELSE Step(k, Sleep([f EXCEPT !.local = pg.rows, !.sz = sz,
                                           !.prev_count = Len(pg.rows)]), <<>>)

\* --- nike: _process_category up to step 2: the category page is fetched
\* and the lazy-load stub read from its __NEXT_DATA__ blob
NikePageOutcomes == {"exc", "no-next-data", "no-key", "stub", "empty-stub"}

NikeProcessCategory(k) ==
    /\ pc = "crawl" /\ brand = "nike"
    /\ MayStart(k)
    /\ \E o \in NikePageOutcomes :
          LET f == [Request(w[k]) EXCEPT !.st = "run"]
          IN  CASE o = "stub" -> Step(k, [f EXCEPT !.stub = TRUE], <<>>)
                [] o = "empty-stub" -> Step(k, [f EXCEPT !.st = "merged"], <<>>)
                [] OTHER -> Escape(k, f)

\* --- nike: one call of _get_products_from_groupings; after the last one,
\* step 4 of _process_category builds the records (num_pages is not read)
NikeGetProductsFromGroupings(k) ==
    /\ pc = "crawl" /\ brand = "nike"
    /\ w[k].st = "run" /\ w[k].stub
    /\ w[k].fetches < MaxFetch
    /\ \E r \in FetchResults, nxt \in BOOLEAN :
          LET f        == [Request(w[k]) EXCEPT !.seen = Served(@, r, r.items)]
              products == f.local \o r.items
              pg       == ParsePage(brand, products, paths[k])
          IN  IF r.kind # "page" THEN Escape(k, f)
              ELSE IF nxt THEN Step(k, [f EXCEPT !.local = products], <<>>)
              ELSE IF pg.raised THEN Escape(k, [f EXCEPT !.local = products])
              ELSE Step(k, [f EXCEPT !.st = "merged", !.stub = FALSE, !.local = pg.rows],
                        pg.rows)

\* a variant that ends the fragment on its first empty page
StopsOnFirstEmpty(empty_runs) == empty_runs >= 1
\* new balance: `if empty_runs >= 2: break`
NewBalanceStopsOnEmpty(empty_runs) == empty_runs >= 2

\* --- new balance: one turn of `while True` in extract() for fragment k;
\* the records of a page go straight into all_raw
NewBalanceExtractPage(k) ==
    /\ pc = "crawl" /\ brand = "newbalance_atmos"
    /\ w[k].st = "run" \/ MayStart(k)
    /\ LET wk == IF w[k].st = "idle" THEN [w[k] EXCEPT !.st = "run", !.page = 1] ELSE w[k]
       IN  IF num_pages # 0 - 1 /\ wk.page > num_pages
           THEN Step(k, [wk EXCEPT !.st = "merged"], <<>>)
           ELSE /\ wk.fetches < MaxFetch
                /\ \E r \in FetchResults :
                      LET pg == ParsePage(brand, r.items, paths[k])
                          f  == [Request(wk) EXCEPT !.seen = Served(@, r, pg.rows)]
                      IN  IF r.kind # "page" THEN Step(k, [f EXCEPT !.st = "failed"], <<>>)
                          ELSE IF pg.rows = <<>>
                          THEN IF NewBalanceStopsOnEmpty(f.empty_runs + 1)
                               THEN Step(k, [f EXCEPT !.st = "merged", !.empty_runs = @ + 1],
                                         <<>>)
                               ELSE Step(k, Sleep([f EXCEPT !.empty_runs = @ + 1,
                                                            !.page = @ + 1]), <<>>)
                          ELSE Step(k, Sleep([f EXCEPT !.empty_runs = 0, !.page = @ + 1,
                                                       !.local = @ \o pg.rows]), pg.rows)

\* --- world balance: the request of the first URL of path k and
\* _get_total_pages on its text
WorldBalanceFirstPage(k) ==
    /\ pc = "crawl" /\ brand = "worldbalance"
    /\ MayStart(k)
    /\ \E r \in FetchResults, tp \in 1..(MaxFetch - 1) :
          LET f == [Request(w[k]) EXCEPT !.st = "run"]
          IN  CASE r.kind = "exc" -> Escape(k, f)
                [] r.kind = "status" -> Step(k, [f EXCEPT !.st = "failed"], <<>>)
                [] OTHER -> Step(k, [f EXCEPT !.total_pages = tp, !.page = 1], <<>>)

\* --- world balance: one turn of `for i in range(1, total_pages + 1)`
WorldBalanceExtractPage(k) ==
    /\ pc = "crawl" /\ brand = "worldbalance"
    /\ w[k].st = "run"
    /\ w[k].fetches < MaxFetch
    /\ \E r \in FetchResults :
          LET pg   == ParsePage(brand, r.items, paths[k])
              f    == [Request(w[k]) EXCEPT !.seen = Served(@, r, pg.rows)]
              capped == 0 <= num_pages /\ num_pages = f.page
              last == (0 <= num_pages /\ num_pages = f.page) \/ f.page = f.total_pages
          IN  CASE r.kind = "exc" -> Escape(k, f)
                [] r.kind = "status" -> Step(k, [f EXCEPT !.st = "failed"], <<>>)
                [] OTHER ->
                     IF pg.rows = <<>> THEN Step(k, [f EXCEPT !.st = "merged"], <<>>)
                     ELSE LET g == [f EXCEPT !.st = IF last THEN "merged" ELSE "run",
                                                 !.page = IF last THEN @ ELSE @ + 1,
                                                 !.local = @ \o pg.rows]
                          IN  Step(k, IF capped THEN g ELSE Sleep(g), pg.rows)

\* run_extract after extract(): the records are serialized into the body
Respond ==
    /\ pc = "returned"
    /\ resp' = "extracted"
    /\ pc' = "done"
    /\ UNCHANGED <<fh, brand, category, num_pages, paths, site, w, all_shoes, df_clean, dq, shoes>>

Next ==
    \/ Lookup
    \/ \E k \in 1..Len(paths) : AdidasExtractRaw(k)
    \/ \E k \in 1..Len(paths) : AsicsProcessCategory(k)
    \/ \E k \in 1..Len(paths) : AsicsCollect(k)
    \/ \E k \in 1..Len(paths) : HokaScrapeFirst(k)
    \/ \E k \in 1..Len(paths) : HokaScrapeCategory(k)
    \/ \E k \in 1..Len(paths) : NikeProcessCategory(k)
    \/ \E k \in 1..Len(paths) : NikeGetProductsFromGroupings(k)
    \/ \E k \in 1..Len(paths) : NewBalanceExtractPage(k)
    \/ \E k \in 1..Len(paths) : WorldBalanceFirstPage(k)
    \/ \E k \in 1..Len(paths) : WorldBalanceExtractPage(k)
    \/ Clean
    \/ GateAndReturn
    \/ Respond

Spec == Init /\ [][Next]_vars

(***************************************************************************)
(* Properties of the whole request (Spec).                                 *)
(***************************************************************************)
\* C1: with a page cap num_pages = n >= 0, the pagination of a category
\* issues at most n page requests, for every brand and whatever the site
\* returns.  The code does not keep this: nike never reads num_pages, asics
\* and world balance test the cap only after a request, hoka requests the
\* first page before its loop.
C1_PageCapBoundsFetches ==
    num_pages >= 0 => \A k \in DOMAIN w : w[k].fetches <= num_pages

\* C3: in an "all" run a failure while crawling one category does not make
\* extract() raise.  The code keeps this for asics and new balance only.
C3_CategoryFailureIsContained ==
    (category = "all" /\ \E k \in DOMAIN w : w[k].st = "raised") => pc # "raised"

\* C9: run_extract lets no exception escape, and an unknown brand gets the
\* error body without an extractor being constructed.  run_extract has no
\* handler around extract(), so every exception of an extractor escapes.
C9_RunExtractNeverRaises ==
    /\ pc # "raised"
    /\ pc = "done" => resp \in {"extracted", "error"}
    /\ (pc = "done" /\ brand \notin Brands) => (resp = "error" /\ w = <<>>)

\* C10: extract() returns exactly the normalizer's records, whether the
\* data-quality gate passed or failed.
C10_GateDoesNotChangeReturn ==
    dq # "not-run" => (pc \in {"returned", "done"} /\ shoes = df_clean)

\* C10, its case: the gate failed and the records were returned all the same
C10_FailedGateStillReturns ==
    /\ pc = "returned"
    /\ dq = "failed"
    /\ shoes # <<>>
    /\ shoes = df_clean

(***************************************************************************)
(* Properties of parse -> normalize -> gate -> return (SpecNorm).          *)
(***************************************************************************)
\* the raw records the normalizer of brand b does not drop for what they are
\* (dropna on id, groupby's null keys, nike's footwear filter)
SurvivesCleaning(b, r) ==
    CASE b \in {"adidas", "asics", "hoka", "newbalance_atmos"} -> r.id # None
      [] b = "nike" -> NikeIsShoe(r)
      [] OTHER -> TRUE

Surviving == SelectSeq(all_shoes, LAMBDA r : SurvivesCleaning(brand, r))

\* the genders the surviving raw records of one id carry
RawGenders(id) == GendersOf(SelectSeq(Surviving, LAMBDA r : r.id = id))

\* C2: an id found once with ["male"] and once with ["female"] comes out as a
\* single record with gender ["unisex"]; an id found only with ["male"]
\* keeps ["male"].  Only adidas and new balance merge the genders; asics,
\* hoka, nike and world balance keep the gender of the first record.
C2_GenderCollapse ==
    pc = "returned" =>
        /\ UniqueIds(shoes)
        /\ \A j \in {i \in DOMAIN shoes : shoes[i].id # None} :
              /\ RawGenders(shoes[j].id) = {"male", "female"} => shoes[j].gender = <<"unisex">>
              /\ RawGenders(shoes[j].id) = {"male"} => shoes[j].gender = <<"male">>

\* C4: extract() returns exactly one record for each distinct id of the raw
\* batch that survives cleaning, and no two returned records share an id.
C4_OneRecordPerId ==
    pc = "returned" =>
        /\ UniqueIds(shoes)
        /\ {shoes[j].id : j \in DOMAIN shoes} = {Surviving[i].id : i \in DOMAIN Surviving}

\* C4, its case: an id found twice in the raw batch is returned once
C4_DuplicateIdReturnedOnce ==
    /\ pc = "returned"
    /\ \E i, m \in DOMAIN Surviving : i < m /\ Surviving[i].id = Surviving[m].id
    /\ Len(shoes) = 1

\* C5: every returned record has price_sale >= 0 and price_original >= 0,
\* neither of them null, whatever the raw prices were.
C5_PricesNonNegative ==
    pc = "returned" =>
        \A j \in DOMAIN shoes :
            /\ IsNumber(shoes[j].price_sale) /\ shoes[j].price_sale[1] >= 0
            /\ IsNumber(shoes[j].price_original) /\ shoes[j].price_original[1] >= 0

\* C5, its case: a raw record with a negative sale price and no original
\* price is returned with both prices at 0
C5_NegativePriceClipped ==
    /\ pc = "returned"
    /\ \E i \in DOMAIN all_shoes, j \in DOMAIN shoes :
          /\ IsNumber(all_shoes[i].price_sale) /\ all_shoes[i].price_sale[1] < 0
          /\ \A m \in 1..(i - 1) : all_shoes[m].id # all_shoes[i].id
          /\ shoes[j].id = all_shoes[i].id
          /\ shoes[j].price_sale = Some(0)

\* a card that shows a sale price and no original price
SaleOnly(c) == c.sale = "5" /\ c.orig = "" /\ ~c.bad

\* C6: a source item with a sale price and no distinct original price gives
\* a record whose price_original equals its price_sale.  adidas and nike
\* default the missing original price to 0.0.
C6_OriginalDefaultsToSale ==
    \A k \in DOMAIN w :
        (w[k].st = "merged" /\ \A i \in DOMAIN site[k] : SaleOnly(site[k][i])) =>
            \A i \in DOMAIN w[k].local :
                w[k].local[i].price_original = w[k].local[i].price_sale

\* C7: no returned record has a gender list that holds both "male" and
\* "female".
C7_NeverMaleAndFemale ==
    pc = "returned" =>
        \A j \in DOMAIN shoes : ~({"male", "female"} \subseteq Range(shoes[j].gender))

\* C7, its case: the raw records of an id carry both genders and the
\* returned record is ["unisex"]
C7_BothGendersCollapsed ==
    /\ pc = "returned"
    /\ \E j \in DOMAIN shoes :
          /\ {"male", "female"} \subseteq RawGenders(shoes[j].id)
          /\ shoes[j].gender = <<"unisex">>

\* C8: a card whose field extraction raises does not make the parser raise.
\* The loops of adidas, nike and hoka have no handler around one item.
C8_ParserIsolatesItem ==
    \A k \in DOMAIN w :
        (\E i \in DOMAIN site[k] : site[k][i].bad) => w[k].st # "raised"

(***************************************************************************)
(* SpecGate: a brand's data-quality gate called on a frame of records of   *)
(* any content (the gate is a method of its own; nothing in it relies on   *)
(* the frame coming from the normalizer).                                  *)
(***************************************************************************)
\* records of a frame handed to a gate
MaxFrame == 2

GateRecords ==
    {Shoe(Some(id), "shoe", Some("sub"), Some("img"), ps, po, g, ex) :
        id \in {1, 2}, ps \in {Some(5), Some(0 - 5), None}, po \in {Some(8), Some(0 - 5)},
        g \in {<<"male">>, <<"male", "female">>}, ex \in {None, Some({})}}

InitGate ==
    /\ brand \in Brands
    /\ category = "all"
    /\ num_pages = 0 - 1
    /\ paths = <<>>
    /\ site = <<>>
    /\ w = <<>>
    /\ all_shoes = <<>>
    /\ df_clean \in SeqsUpTo(GateRecords, MaxFrame)
    /\ pc = "gate"
    /\ dq = "not-run"
    /\ shoes = <<>>
    /\ resp = "none"
    /\ fh = NoFetch

SpecGate == InitGate /\ [][GateAndReturn]_vars

\* C11: a frame that holds a record with a negative price_sale or
\* price_original makes the gate of every brand return false.  The gates of
\* asics, hoka and new balance have no check on the sign of a price.
C11_NegativePriceFailsGate ==
    (/\ dq # "not-run"
     /\ \E i \in DOMAIN df_clean :
           Negative(df_clean[i].price_sale) \/ Negative(df_clean[i].price_original))
        => dq = "failed"

(***************************************************************************)
(* Properties of the pagination loops (Spec).                              *)
(***************************************************************************)
\* the pages a loop was served before its latest one
Earlier(seen) == SubSeq(seen, 1, Len(seen) - 1)

\* C12: in the loops of asics and adidas the first page that parses to no
\* item ends the category: no page is requested after it, and the list
\* returned is the items of the pages before it, in page order.
C12_EmptyPageEndsCategory ==
    brand \in {"adidas", "asics"} =>
        \A k \in DOMAIN w :
            /\ \A i \in DOMAIN Earlier(w[k].seen) : w[k].seen[i] # <<>>
            /\ (/\ w[k].seen # <<>>
                /\ w[k].seen[Len(w[k].seen)] = <<>>
                /\ w[k].st # "raised")
                  => /\ w[k].st \in {"ok", "merged"}
                     /\ w[k].local = Concat(Earlier(w[k].seen))

\* C12, its case: a page with items, then an empty page, and the category
\* ended with the items of the first
C12_StoppedOnEmptyPage ==
    /\ brand \in {"adidas", "asics"}
    /\ \E k \in DOMAIN w :
          /\ Len(w[k].seen) = 2
          /\ w[k].seen[1] # <<>>
          /\ w[k].seen[2] = <<>>
          /\ w[k].st \in {"ok", "merged"}
          /\ w[k].local = w[k].seen[1]

\* C13: in adidas' _extract_raw a page of k items with 0 < k < PAGE_SIZE is
\* the last page requested for the category, and its k items are in the
\* result.  (The model's pages hold at most MaxItems cards and PAGE_SIZE is
\* MaxItems; the loop reads PAGE_SIZE only in this comparison and in the
\* request parameters.)
C13_ShortPageIsLast ==
    brand = "adidas" =>
        \A k \in DOMAIN w :
            /\ \A i \in DOMAIN Earlier(w[k].seen) : Len(w[k].seen[i]) = PAGE_SIZE
            /\ (/\ w[k].seen # <<>>
                /\ 0 < Len(w[k].seen[Len(w[k].seen)])
                /\ Len(w[k].seen[Len(w[k].seen)]) < PAGE_SIZE
                /\ w[k].st # "raised")
                  => /\ w[k].st = "merged"
                     /\ w[k].local = Concat(w[k].seen)

\* C13, its case: a full page, then a short one, and the category ended
\* with the items of both
C13_StoppedOnShortPage ==
    /\ brand = "adidas"
    /\ \E k \in DOMAIN w :
          /\ Len(w[k].seen) = 2
          /\ Len(w[k].seen[1]) = PAGE_SIZE
          /\ 0 < Len(w[k].seen[2]) /\ Len(w[k].seen[2]) < PAGE_SIZE
          /\ w[k].st = "merged"
          /\ w[k].local = w[k].seen[1] \o w[k].seen[2]

\* what each category's worker returned, put together in the order of the
\* table instead of the order of completion
InTableOrder ==
    Concat([k \in DOMAIN w |-> IF w[k].st = "merged" THEN w[k].local ELSE <<>>])

\* C14: for the same result of every category, asics' extract() returns the
\* same set of records in every order of completion of the workers - so the
\* set is the one the order of the table gives.  The code extends the batch
\* in completion order and keeps the first record of an id, so the gender of
\* an id found under two categories is the one of the worker that ended
\* first.
C14_CompletionOrderImmaterial ==
    (brand = "asics" /\ pc = "returned") =>
        Range(shoes) = Range(CleanData(brand, InTableOrder).df)

(***************************************************************************)
(* More properties of the normalizers (SpecNorm).                          *)
(***************************************************************************)
\* C15: a normalizer applied to its own output gives that output again.
\* (df_clean is the normalizer's output of the raw batch all_shoes.)
C15_NormalizeIdempotent ==
    (pc \in {"gate", "returned"} /\ df_clean # <<>>) =>
        CleanData(brand, df_clean) = Frame(df_clean)

\* C15, its case: the normalizer changed the raw batch, and does not change
\* its own output
C15_SecondPassChangesNothing ==
    /\ pc = "gate"
    /\ df_clean # <<>>
    /\ df_clean # all_shoes
    /\ CleanData(brand, df_clean).df = df_clean

\* the first surviving raw record of an id: the one whose fields the
\* normalizers keep
FirstRaw(id) == Head(SelectSeq(Surviving, LAMBDA r : r.id = id))

Placeholders == {Some("no_image.png"), Some("")}

\* C16: no returned record has a null image; a raw record whose image is
\* null is returned with the brand's placeholder.
C16_ImageNeverNull ==
    pc = "returned" =>
        \A j \in DOMAIN shoes :
            /\ shoes[j].image # None
            /\ FirstRaw(shoes[j].id).image = None => shoes[j].image \in Placeholders

\* C16, its case: a raw record with a null image was returned with a
\* placeholder
C16_NullImageGotPlaceholder ==
    /\ pc = "returned"
    /\ \E j \in DOMAIN shoes :
          /\ FirstRaw(shoes[j].id).image = None
          /\ shoes[j].image \in Placeholders

(***************************************************************************)
(* More properties of the pagination loops (Spec).                         *)
(***************************************************************************)
\* the cap of new balance's loop has been reached: `page > self.max_pages`
NewBalanceCapReached(k) == num_pages # 0 - 1 /\ w[k].page > num_pages

\* C17: new balance stops the crawl of a fragment on emptiness only after
\* two consecutive pages without items; an empty page followed by a page
\* with items resets the counter, and the items of every page are in the
\* raw batch.
C17_TwoEmptyPagesEndFragment ==
    brand = "newbalance_atmos" =>
        \A k \in DOMAIN w :
            LET seen == w[k].seen
                n    == Len(seen)
            IN  /\ w[k].st = "merged" =>
                      \/ NewBalanceCapReached(k)
                      \/ n >= 2 /\ seen[n] = <<>> /\ seen[n - 1] = <<>>
                /\ \A i \in 1..(n - 2) : ~(seen[i] = <<>> /\ seen[i + 1] = <<>>)
                /\ (n >= 1 /\ seen[n] # <<>>) => w[k].empty_runs = 0
                /\ w[k].local = Concat(seen)
                /\ \A i \in DOMAIN w[k].local : w[k].local[i] \in Range(all_shoes)

\* C17, its case: an empty page, then a page with items whose records are in
\* the batch, and the loop goes on with the counter at zero
C17_EmptyThenItemsGoesOn ==
    /\ brand = "newbalance_atmos"
    /\ \E k \in DOMAIN w :
          /\ Len(w[k].seen) = 2
          /\ w[k].seen[1] = <<>>
          /\ w[k].seen[2] # <<>>
          /\ w[k].st = "run"
          /\ w[k].empty_runs = 0
          /\ \A i \in DOMAIN w[k].seen[2] : w[k].seen[2][i] \in Range(all_shoes)

\* C18: hoka's _scrape_category stops at the first request of its loop whose
\* item count is not greater than the count of the request before it, and
\* returns the largest batch it saw.  (seen[1] is the request before the
\* loop, so the loop's requests are seen[2], seen[3], ...)  The code breaks
\* only on `count == prev_count`: a count that shrank does not end the loop
\* and replaces `final`.
C18_StopsWhenCountStopsGrowing ==
    brand = "hoka" =>
        \A k \in DOMAIN w :
            LET seen == w[k].seen
                n    == Len(seen)
            IN  /\ (n >= 3 /\ Len(seen[n]) <= Len(seen[n - 1]) /\ w[k].st # "raised")
                      => w[k].st = "merged"
                /\ w[k].st = "merged" =>
                      \A i \in 2..n : Len(w[k].local) >= Len(seen[i])

\* C19: world balance with num_pages = -1 goes on requesting the pages of a
\* path until two consecutive pages yield no card; one empty page does not
\* end the crawl of the path.  The code breaks on the first page without
\* cards.
C19_TwoEmptyPagesEndPath ==
    (brand = "worldbalance" /\ num_pages = 0 - 1) =>
        \A k \in DOMAIN w :
            LET seen == w[k].seen
                n    == Len(seen)
            IN  (/\ w[k].st = "merged"
                 /\ w[k].page < w[k].total_pages      \* pages were left to request
                 /\ n >= 1 /\ seen[n] = <<>>) =>
                    (n >= 2 /\ seen[n - 1] = <<>>)

(***************************************************************************)
(* More properties of the parsers (SpecNorm).                              *)
(***************************************************************************)
MarkupBrands == {"asics", "hoka", "worldbalance", "newbalance_atmos"}

\* a card with exactly one price element, holding a number
OnePrice(c) ==
    /\ ~c.bad
    /\ \/ c.sale \in {"5", "8"} /\ c.orig = ""
       \/ c.sale = "" /\ c.orig \in {"5", "8"}
ThePrice(c) == Some(Float(IF c.sale = "" THEN c.orig ELSE c.sale))

\* C20: in the markup parsers a card with exactly one price element gets that
\* value as price_sale and as price_original, also when the element is the
\* original-price one.  asics and hoka give price_sale 0.0 to a card that
\* has only the original-price element.
C20_OnePriceFillsBoth ==
    brand \in MarkupBrands =>
        \A k \in DOMAIN w :
            (w[k].st = "merged" /\ Len(site[k]) = 1 /\ OnePrice(site[k][1])) =>
                \A i \in DOMAIN w[k].local :
                    /\ w[k].local[i].price_sale = ThePrice(site[k][1])
                    /\ w[k].local[i].price_original = ThePrice(site[k][1])

\* C21: no returned record has a null id: the normalizer drops every raw
\* record whose id is null.  nike's and world balance's _clean_data have no
\* dropna on id; nike's parser hands on a null productCode.
C21_NoNullId ==
    pc = "returned" => \A j \in DOMAIN shoes : shoes[j].id # None

(***************************************************************************)
(* fetch_html: the retrying fetch of src/utils/fetch_html.py.              *)
(***************************************************************************)
\* the largest retries argument a call is made with
MaxRetries == 3

\* what one requests.get can come to: an exception (connection error,
\* timeout), or a response with a status and a body
Responses ==
    {[kind |-> "exc", status |-> 0, text |-> ""]}
        \cup [kind : {"resp"}, status : {200}, text : {"<html>", ""}]
        \cup [kind : {"resp"}, status : {404, 500}, text : {"<error>"}]

\* lines 28-31: the URL the attempts of the loop are sent to
TargetUrl(use_proxy, scraper_api_key) ==
    IF use_proxy /\ scraper_api_key THEN "proxy" ELSE "direct"

\* a loop that returns on no status at all
NeverSucceeds(r) == FALSE

\* lines 38 and 54: the response the call returns the text of
IsSuccess(r) == r.kind = "resp" /\ r.status = 200

\* a fallback after every failed loop
AlwaysFallsBack(use_proxy, fallback_direct) == TRUE

\* line 50: whether the direct request is made once the loop is over
FallsBack(use_proxy, fallback_direct) == use_proxy /\ fallback_direct

\* the environment and the argument of one call
InitFetch ==
    /\ brand = "adidas"
    /\ category = "all"
    /\ num_pages = 0 - 1
    /\ paths = <<>>
    /\ site = <<>>
    /\ w = <<>>
    /\ all_shoes = <<>>
    /\ df_clean = <<>>
    /\ pc = "fetch"
    /\ dq = "not-run"
    /\ shoes = <<>>
    /\ resp = "none"
    /\ \E up \in BOOLEAN, fd \in BOOLEAN, key \in BOOLEAN, n \in 0..MaxRetries :
          fh = [at |-> "loop", use_proxy |-> up, fallback_direct |-> fd,
                scraper_api_key |-> key, retries |-> n, attempt |-> 0,
                log |-> <<>>, sleeps |-> 0, ret |-> None]

\* lines 33-47: one turn of the loop
FetchAttempt ==
    /\ fh.at = "loop"
    /\ fh.attempt < fh.retries
    /\ \E r \in Responses :
          LET sent == Append(fh.log,
                        [url |-> TargetUrl(fh.use_proxy, fh.scraper_api_key),
                         fallback |-> FALSE, r |-> r])
          IN IF IsSuccess(r)
             THEN fh' = [fh EXCEPT !.log = sent, !.at = "returned",
                                   !.ret = Some(r.text)]
             ELSE fh' = [fh EXCEPT !.log = sent, !.attempt = @ + 1,
                                   !.sleeps = @ + 1]
    /\ UNCHANGED <<brand, category, num_pages, pc, paths, site, w, all_shoes,
                   df_clean, dq, shoes, resp>>

\* lines 49-61: what follows the loop
FetchFallback ==
    /\ fh.at = "loop"
    /\ fh.attempt >= fh.retries
    /\ IF FallsBack(fh.use_proxy, fh.fallback_direct)
       THEN \E r \in Responses :
               LET sent == Append(fh.log,
                             [url |-> "direct", fallback |-> TRUE, r |-> r])
               IN fh' = [fh EXCEPT !.log = sent, !.at = "returned",
                                   !.ret = IF IsSuccess(r) THEN Some(r.text)
                                           ELSE None]
       ELSE fh' = [fh EXCEPT !.at = "returned", !.ret = None]
    /\ UNCHANGED <<brand, category, num_pages, pc, paths, site, w, all_shoes,
                   df_clean, dq, shoes, resp>>

NextFetch == FetchAttempt \/ FetchFallback

SpecFetch == InitFetch /\ [][NextFetch]_vars

\* the requests of the call so far that were answered with status 200
Successes == {i \in DOMAIN fh.log : fh.log[i].r.kind = "resp" /\ fh.log[i].r.status = 200}

\* the requests of the loop, and the fallback requests
LoopRequests == {i \in DOMAIN fh.log : ~fh.log[i].fallback}
FallbackRequests == {i \in DOMAIN fh.log : fh.log[i].fallback}

\* C22: a call makes at most `retries` requests to the target URL and after
\* them at most one fallback request; it returns the body of the first
\* response with status 200, and that response is the last request it made.
C22_BoundedRequestsFirstSuccess ==
    fh.at # "unused" =>
        /\ Cardinality(LoopRequests) <= fh.retries
        /\ Cardinality(FallbackRequests) <= 1
        /\ \A i \in FallbackRequests : i = Len(fh.log) /\ fh.at = "returned"
        /\ \A i \in Successes :
              /\ i = Len(fh.log)
              /\ fh.at = "returned"
              /\ fh.ret = Some(fh.log[i].r.text)

\* a call that failed once and then returned the body of a 200 response
C22_ReturnedAfterRetry ==
    /\ fh.at = "returned"
    /\ Len(fh.log) = 2
    /\ fh.log[1].r.status = 500
    /\ fh.log[2].r.status = 200
    /\ fh.ret = Some("<html>")

\* a response the retry policy has nothing to retry on: a status that is
\* neither 2xx nor 5xx, or a body that is empty
Permanent(r) ==
    /\ r.kind = "resp"
    /\ \/ r.status \notin 200..299 /\ r.status \notin 500..599
       \/ r.text = ""

\* C23: a response with a non-2xx status that is not transient (404) or with
\* an empty body ends the call at once with a failure: no request follows
\* it.  The loop retries on every status but 200, and hands back the empty
\* body of a 200 response as the result.
C23_PermanentFailureIsNotRetried ==
    fh.at # "unused" =>
        \A i \in LoopRequests :
            Permanent(fh.log[i].r) =>
                /\ i = Len(fh.log)
                /\ fh.at = "returned"
                /\ fh.ret = None

\* C24: the direct fallback request is made exactly when FALLBACK_DIRECT is
\* on and all the attempts of the loop went through the proxy and failed;
\* never after attempts that were already direct.  The test of line 50 reads
\* USE_SCRAPPER_PROXY only, not whether a key made the attempts go through
\* the proxy.
C24_FallbackOnlyAfterProxy ==
    (fh.at = "returned" /\ fh.retries > 0) =>
        /\ FallbackRequests # {} <=>
              /\ fh.fallback_direct
              /\ TargetUrl(fh.use_proxy, fh.scraper_api_key) = "proxy"
              /\ \A i \in LoopRequests : ~IsSuccess(fh.log[i].r)
        /\ (\E i \in LoopRequests : fh.log[i].url = "direct") => FallbackRequests = {}

(***************************************************************************)
(* The worker pool of asics' extract() on more paths than it has workers.  *)
(***************************************************************************)
\* four paths of asics' PRODUCT_LISTS: /running013, /sportstyle013,
\* /running023 and /running033
ASICS_PATHS == <<"men", "men", "women", "kids">>

\* what the site answers the workers of the pool with: an exception, an
\* empty page or a page of one card
PoolResults ==
    {[kind |-> "exc", items |-> <<>>]}
        \cup {[kind |-> "page", items |-> SitePage(n)] : n \in 0..1}

\* a worker of the pool
AsicsPoolCategory(k) == AsicsTurn(k, PoolResults)

\* AsicsExtractor("all", 2).extract() after the futures were submitted
InitPool ==
    /\ brand = "asics"
    /\ category = "all"
    /\ num_pages = 2
    /\ pc = "crawl"
    /\ paths = ASICS_PATHS
    /\ site = <<>>
    /\ w = [k \in 1..Len(ASICS_PATHS) |-> Idle]
    /\ all_shoes = <<>>
    /\ df_clean = <<>>
    /\ dq = "not-run"
    /\ shoes = <<>>
    /\ resp = "none"
    /\ fh = NoFetch

NextPool ==
    \/ \E k \in 1..Len(paths) : AsicsPoolCategory(k)
    \/ \E k \in 1..Len(paths) : AsicsCollect(k)
    \/ Clean
    \/ GateAndReturn

SpecPool == InitPool /\ [][NextPool]_vars

\* the paths a worker of the pool is crawling
Crawling == {k \in DOMAIN w : w[k].st = "run"}

\* C25: in asics' extract() at most 3 categories are being crawled at any
\* moment, every path of the run is crawled exactly once (it is crawled, and
\* a path that was started is never started again), and _clean_data starts
\* only after every category has finished, with success or with failure.
C25_PoolOfThreeThenClean ==
    /\ [](Cardinality(Crawling) <= 3)
    /\ [](pc \in {"clean", "gate", "returned"} =>
            \A k \in DOMAIN w : w[k].st \in {"merged", "failed"} /\ w[k].fetches >= 1)
    /\ [][\A k \in DOMAIN w : w[k].st # "idle" => w'[k].st # "idle"]_vars

\* three categories are being crawled and the fourth waits for a worker
C25_ThreeCrawlingOneQueued ==
    /\ Cardinality(Crawling) = 3
    /\ \E k \in DOMAIN w : w[k].st = "idle"

\* C26 (as amended): no worker writes all_shoes - a turn of a worker changes
\* the list local to its own _process_category call only - and all_shoes
\* changes only when extract() takes a completed future and extends
\* all_shoes by that category's list, one category at a time.
C26_OnlyExtractMergesCompleted ==
    [][/\ (\E k \in DOMAIN w : w'[k].fetches # w[k].fetches) => all_shoes' = all_shoes
       /\ all_shoes' # all_shoes =>
             \E k \in DOMAIN w :
                /\ w[k].st = "ok"
                /\ w'[k].st = "merged"
                /\ all_shoes' = all_shoes \o w[k].local
                /\ \A j \in DOMAIN w : j # k => w'[j] = w[j]]_vars

\* a category's records are in all_shoes while another worker still crawls
C26_MergedWhileCrawling ==
    /\ all_shoes # <<>>
    /\ \E k \in DOMAIN w : w[k].st = "merged" /\ w[k].local # <<>>
    /\ Crawling # {}

\* C26 (as stated): no worker writes all_shoes, and the categories' results
\* are merged into all_shoes only after all workers have completed.
C26_MergedAfterAllCompleted ==
    /\ [][(\E k \in DOMAIN w : w'[k].fetches # w[k].fetches) => all_shoes' = all_shoes]_vars
    /\ []((\E k \in DOMAIN w : w[k].st = "merged") =>
             \A j \in DOMAIN w : w[j].st \notin {"idle", "run"})

\* C27: for every extractor, within the crawl of one category a sleep
\* happens between any two consecutive page requests.  hoka's first request
\* is followed at once by the first request of its loop, world balance's
\* request of the first URL by that of page 1, and nike's requests are
\* never separated by a sleep.
C27_SleepBetweenRequests ==
    \A k \in DOMAIN w : ~w[k].rushed

\* the ids of the records parsed from the pages a path was served
ParsedIds(k) ==
    UNION {{w[k].seen[i][j].id : j \in DOMAIN w[k].seen[i]} : i \in DOMAIN w[k].seen}
        \ {None}

\* C28: when a page request fails in the middle of a category, after pages
\* of that category were parsed, the records of those pages are still in
\* the list extract() returns.  The list of an asics worker is lost with the
\* worker's exception.
C28_ParsedPagesSurviveFailure ==
    pc = "returned" =>
        \A k \in DOMAIN w :
            (w[k].st = "failed" /\ brand # "nike") =>
                \A id \in ParsedIds(k) : \E j \in DOMAIN shoes : shoes[j].id = id

\* C29: when the crawl yields zero raw records (every category empty, or
\* num_pages = 0), extract() returns an empty list without raising.  On the
\* DataFrame of an empty batch, which has no columns, every _clean_data but
\* new balance's merge raises a KeyError.
C29_EmptyBatchReturnsEmpty ==
    (/\ paths # <<>>
     /\ \A k \in DOMAIN w : Consumed(w[k].st)
     /\ all_shoes = <<>>) =>
        /\ pc # "raised"
        /\ pc \in {"returned", "done"} => shoes = <<>>

\* C30: the gate run on the non-empty output of the extractor's own
\* normalizer passes whenever the output has non-null non-negative prices,
\* unique ids and collapsed genders; a null subTitle or a null extra never
\* fails it.  asics' gate counts the nulls of every column, and every asics
\* record has a null extra.
C30_GatePassesOnSoundOutput ==
    (/\ pc = "returned"
     /\ shoes # <<>>
     /\ \A j \in DOMAIN shoes :
           /\ IsNumber(shoes[j].price_sale) /\ ~Negative(shoes[j].price_sale)
           /\ IsNumber(shoes[j].price_original) /\ ~Negative(shoes[j].price_original)
           /\ shoes[j].id # None
           /\ ~GenderNotNormalized(shoes[j].gender)
     /\ UniqueIds(shoes)) =>
        dq = "passed"

=============================================================================
